---------------------------- MODULE Spec2Model ----------------------------
(***************************************************************************)
(* Bug tracker backend: routes -> express-validator chains ->              *)
(* validateRequest -> bugController -> Bug model (mongoose) -> response.   *)
(*                                                                         *)
(* Text is kept run-length encoded: a text is a sequence of runs           *)
(* [c |-> class, n |-> count] with classes "x" (any ordinary character),   *)
(* " " (whitespace), "<" and ">", so that the real length limits of the    *)
(* code (3, 10, 200, 1000) are the ones the model computes with.           *)
(***************************************************************************)
EXTENDS Integers, Sequences, FiniteSets, TLC

VARIABLES
  bugs,     \* the Bug collection: _id -> stored document
  nextId,   \* the next _id the storage assigns
  clock,    \* Date.now()
  reqs,     \* per request slot: the request, the handler's position, the response
  nwrites,  \* number of writes the collection has taken
  call,     \* a utility function called on its own: its argument and results
  app,      \* frontend, App: bugs, loading, error, filter; the filter object's
            \* version (ver), the version the effect ran for (ran), the last
            \* fetch (fetch) and the fetch whose response is listed (shown)
  form,     \* frontend, BugForm: formData, errors, isSubmitting
  http,     \* frontend, bugService: the calls that have not settled
  server    \* the API as the frontend sees it: the bugs it holds

back == <<bugs, nextId, clock, reqs, nwrites, call>>
front == <<app, form, http, server>>
vars == <<bugs, nextId, clock, reqs, nwrites, call, app, form, http, server>>

(* ------------------------------ bounds --------------------------------- *)
MaxWrites == 3
MaxClock == 2
MaxRuns == 3
MaxCalls == 2
MaxFilters == 2

(* ------------------------- program constants --------------------------- *)
TitleMin == 3
TitleMax == 200
DescriptionMin == 10
SanitizeMax == 1000
ObjectIdLen == 24

(* ------------------------------ JS values ------------------------------ *)
(* A JSON value of a request body: a text, an array of texts, or undefined. *)
Str(runs) == [type |-> "string", runs |-> runs, items |-> <<>>]
Arr(items) == [type |-> "array", runs |-> <<>>, items |-> items]
Undefined == [type |-> "undefined", runs |-> <<>>, items |-> <<>>]
Null == [type |-> "null", runs |-> <<>>, items |-> <<>>]
Number == [type |-> "number", runs |-> <<>>, items |-> <<>>]
Run(c, n) == <<[c |-> c, n |-> n]>>
(* A literal word of n characters, e.g. Word("open", 4) *)
Word(w, n) == Str(Run(w, n))

RECURSIVE Length(_)
Length(runs) == IF runs = <<>> THEN 0 ELSE Head(runs).n + Length(Tail(runs))

(* Adjacent runs of one class are one run: the canonical form of a text. *)
RECURSIVE Merge(_)
Merge(runs) ==
  IF Len(runs) < 2 THEN runs
  ELSE IF runs[1].c = runs[2].c
       THEN Merge(<<[c |-> runs[1].c, n |-> runs[1].n + runs[2].n]>> \o SubSeq(runs, 3, Len(runs)))
       ELSE <<runs[1]>> \o Merge(Tail(runs))

RECURSIVE LTrim(_)
LTrim(runs) == IF runs # <<>> /\ Head(runs).c = " " THEN LTrim(Tail(runs)) ELSE runs

RECURSIVE RTrim(_)
RTrim(runs) ==
  IF runs # <<>> /\ runs[Len(runs)].c = " " THEN RTrim(SubSeq(runs, 1, Len(runs) - 1)) ELSE runs

(* String.prototype.trim, and validator.js trim with no character set *)
Trim(runs) == RTrim(LTrim(runs))

(* .replace(/[<>]/g, '') *)
StripAngle(runs) == Merge(SelectSeq(runs, LAMBDA r : r.c \notin {"<", ">"}))

(* .slice(0, k) *)
RECURSIVE Slice(_, _)
Slice(runs, k) ==
  IF runs = <<>> \/ k <= 0 THEN <<>>
  ELSE IF Head(runs).n >= k THEN <<[c |-> Head(runs).c, n |-> k]>>
       ELSE <<Head(runs)>> \o Slice(Tail(runs), k - Head(runs).n)

HasAngle(runs) == \E i \in 1..Len(runs) : runs[i].c \in {"<", ">"}

(* JS truthiness: '' and undefined are falsy, every array is truthy *)
Truthy(v) == (v.type = "string" /\ Length(v.runs) > 0) \/ v.type = "array"

(* ------------------------------ validators ----------------------------- *)
open == Word("open", 4)
inProgress == Word("in-progress", 11)
resolved == Word("resolved", 8)
closed == Word("closed", 6)
low == Word("low", 3)
medium == Word("medium", 6)
high == Word("high", 4)
critical == Word("critical", 8)

validStatuses == {open, inProgress, resolved, closed}
validPriorities == {low, medium, high, critical}

(* Mutant of isValidStatus: the value is trimmed before it is looked up *)
isValidStatus_Trimmed(status) == Str(Trim(status.runs)) \in validStatuses

isValidStatus(status) == status \in validStatuses
isValidPriority(priority) == priority \in validPriorities

(* Mutant of sanitizeInput: the brackets are kept *)
sanitizeInput_KeepAngle(input) ==
  IF input.type # "string" THEN input
  ELSE Str(Slice(Trim(input.runs), SanitizeMax))

(* Mutant of sanitizeInput: the result is not cut *)
sanitizeInput_NoSlice(input) ==
  IF input.type # "string" THEN input
  ELSE Str(StripAngle(Trim(input.runs)))

sanitizeInput(input) ==
  IF input.type # "string" THEN input
  ELSE Str(Slice(StripAngle(Trim(input.runs)), SanitizeMax))

(* --------------------- middleware/validation.js ------------------------ *)
(* One step of an express-validator chain: a sanitizer (trim) or a         *)
(* validator with the message of its .withMessage().  max = -1: no max.    *)
TrimStep == [kind |-> "trim", msg |-> "", min |-> 0, max |-> -1, among |-> {}]
NotEmpty(msg) == [kind |-> "notEmpty", msg |-> msg, min |-> 0, max |-> -1, among |-> {}]
IsLength(min, max, msg) == [kind |-> "isLength", msg |-> msg, min |-> min, max |-> max, among |-> {}]
IsIn(among, msg) == [kind |-> "isIn", msg |-> msg, min |-> 0, max |-> -1, among |-> among]
IsArray(msg) == [kind |-> "isArray", msg |-> msg, min |-> 0, max |-> -1, among |-> {}]
IsMongoId(msg) == [kind |-> "isMongoId", msg |-> msg, min |-> 0, max |-> -1, among |-> {}]

createBugValidation == <<
  [field |-> "title", optional |-> FALSE, steps |->
     <<TrimStep, NotEmpty("Title is required"),
       IsLength(TitleMin, TitleMax, "Title must be 3-200 characters")>>],
  [field |-> "description", optional |-> FALSE, steps |->
     <<TrimStep, NotEmpty("Description is required"),
       IsLength(DescriptionMin, -1, "Description must be at least 10 characters")>>],
  [field |-> "priority", optional |-> TRUE, steps |->
     <<IsIn(validPriorities, "Invalid priority")>>],
  [field |-> "reporter", optional |-> FALSE, steps |->
     <<TrimStep, NotEmpty("Reporter name is required")>>],
  [field |-> "assignedTo", optional |-> TRUE, steps |-> <<TrimStep>>],
  [field |-> "tags", optional |-> TRUE, steps |-> <<IsArray("Tags must be an array")>>] >>

updateBugValidation == <<
  [field |-> "title", optional |-> TRUE, steps |->
     <<TrimStep, IsLength(TitleMin, TitleMax, "Title must be 3-200 characters")>>],
  [field |-> "description", optional |-> TRUE, steps |->
     <<TrimStep, IsLength(DescriptionMin, -1, "Description must be at least 10 characters")>>],
  [field |-> "status", optional |-> TRUE, steps |->
     <<IsIn(validStatuses, "Invalid status")>>],
  [field |-> "priority", optional |-> TRUE, steps |->
     <<IsIn(validPriorities, "Invalid priority")>>],
  [field |-> "assignedTo", optional |-> TRUE, steps |-> <<TrimStep>>],
  [field |-> "tags", optional |-> TRUE, steps |-> <<IsArray("Tags must be an array")>>] >>

bugIdValidation == <<
  [field |-> "id", optional |-> FALSE, steps |-> <<IsMongoId("Invalid bug ID format")>>] >>

(* Mutant of isMongoId: any hexadecimal string *)
isMongoId_AnyHex(id) == id.hex

(* isMongoId: a hexadecimal string of 24 characters.  A path identifier is *)
(* [hex, len, key]: whether it is all hex digits, its length, and the      *)
(* document key it denotes when it is an ObjectId.                         *)
isMongoId(id) == id.hex /\ id.len = ObjectIdLen

(* express-validator's toString: undefined becomes '' *)
ToText(v) == IF v.type = "string" THEN v.runs ELSE <<>>

Passes(step, v) ==
  CASE step.kind = "notEmpty" -> Length(ToText(v)) > 0
    [] step.kind = "isLength" ->
         Length(ToText(v)) >= step.min /\ (step.max = -1 \/ Length(ToText(v)) <= step.max)
    [] step.kind = "isIn" -> v \in step.among
    [] step.kind = "isArray" -> v.type = "array"
    [] step.kind = "isMongoId" -> isMongoId(v)
    [] OTHER -> TRUE

(* A chain runs all its steps in order (no .bail()): a sanitizer replaces  *)
(* the value, a failing validator adds its message and the chain goes on.  *)
RECURSIVE RunSteps(_, _, _)
RunSteps(steps, v, errs) ==
  IF steps = <<>> THEN [value |-> v, errors |-> errs]
  ELSE IF Head(steps).kind = "trim"
       THEN RunSteps(Tail(steps), Str(Trim(ToText(v))), errs)
       ELSE RunSteps(Tail(steps), v,
                     IF Passes(Head(steps), v) THEN errs ELSE Append(errs, Head(steps).msg))

(* .optional(): the chain is skipped when the field is undefined *)
RunChain(chain, v) ==
  IF chain.optional /\ v.type = "undefined"
  THEN [value |-> v, errors |-> <<>>]
  ELSE RunSteps(chain.steps, v, <<>>)

(* The chains of a route run one after the other over req.body; each       *)
(* writes its sanitized value back and adds its errors to the result.      *)
RECURSIVE RunChains(_, _, _)
RunChains(chains, body, errs) ==
  IF chains = <<>> THEN [body |-> body, errors |-> errs]
  ELSE LET c == Head(chains)
           r == RunChain(c, body[c.field])
       IN RunChains(Tail(chains), [body EXCEPT ![c.field] = r.value], errs \o r.errors)

(* errorMessages.join(', ') *)
RECURSIVE Join(_, _)
Join(msgs, sep) ==
  IF msgs = <<>> THEN <<>>
  ELSE IF Len(msgs) = 1 THEN msgs
       ELSE <<Head(msgs), sep>> \o Join(Tail(msgs), sep)

(* class AppError: the error handler answers err.statusCode || 500 *)
AppError(message, statusCode) == [message |-> message, statusCode |-> statusCode]

(* Mutants of validateRequest: the result is not looked at; only the      *)
(* first message is reported.                                              *)
validateRequest_Skip(errors) == [pass |-> TRUE, error |-> AppError(<<>>, 0)]

validateRequest_First(errors) ==
  IF errors # <<>>
  THEN [pass |-> FALSE, error |-> AppError(<<Head(errors)>>, 400)]
  ELSE [pass |-> TRUE, error |-> AppError(<<>>, 0)]

(* validateRequest: next(new AppError(joined, 400)) or next() *)
validateRequest(errors) ==
  IF errors # <<>>
  THEN [pass |-> FALSE, error |-> AppError(Join(errors, ", "), 400)]
  ELSE [pass |-> TRUE, error |-> AppError(<<>>, 0)]

(* --------------------------- models/Bug.js ----------------------------- *)
(* trim: true, the setter mongoose applies when it casts a value *)
SetTrim(v) == IF v.type = "string" THEN Str(Trim(v.runs)) ELSE v

(* tags: [{type: String, trim: true}]: every element is trimmed; a value   *)
(* that is no array is cast to an array of one element; the default is []. *)
CastTags(v) ==
  CASE v.type = "array" -> Arr([i \in 1..Len(v.items) |-> SetTrim(v.items[i])])
    [] v.type = "string" -> Arr(<<SetTrim(v)>>)
    [] OTHER -> Arr(<<>>)

NoRule == [on |-> FALSE, n |-> 0, msg |-> ""]
Rule(n, msg) == [on |-> TRUE, n |-> n, msg |-> msg]

bugSchema == <<
  [path |-> "title", required |-> Rule(0, "Bug title is required"),
   minlength |-> Rule(TitleMin, "Title must be at least 3 characters"),
   maxlength |-> Rule(TitleMax, "Title cannot exceed 200 characters"), enum |-> {}],
  [path |-> "description", required |-> Rule(0, "Bug description is required"),
   minlength |-> Rule(DescriptionMin, "Description must be at least 10 characters"),
   maxlength |-> NoRule, enum |-> {}],
  [path |-> "status", required |-> NoRule, minlength |-> NoRule, maxlength |-> NoRule,
   enum |-> validStatuses],
  [path |-> "priority", required |-> NoRule, minlength |-> NoRule, maxlength |-> NoRule,
   enum |-> validPriorities],
  [path |-> "reporter", required |-> Rule(0, "Reporter name is required"),
   minlength |-> NoRule, maxlength |-> NoRule, enum |-> {}] >>

(* Mutants of PathError: a schema without its enum, without its minlength *)
PathError_NoEnum(p, v) ==
  IF p.required.on /\ ~(v.type = "string" /\ Length(v.runs) > 0)
    THEN <<p.required.msg>>
  ELSE IF v.type = "undefined" THEN <<>>
  ELSE IF p.minlength.on /\ Length(v.runs) < p.minlength.n THEN <<p.minlength.msg>>
  ELSE IF p.maxlength.on /\ Length(v.runs) > p.maxlength.n THEN <<p.maxlength.msg>>
  ELSE <<>>

PathError_NoMinlength(p, v) ==
  IF p.required.on /\ ~(v.type = "string" /\ Length(v.runs) > 0)
    THEN <<p.required.msg>>
  ELSE IF v.type = "undefined" THEN <<>>
  ELSE IF p.maxlength.on /\ Length(v.runs) > p.maxlength.n THEN <<p.maxlength.msg>>
  ELSE IF p.enum # {} /\ v \notin p.enum THEN <<"is not a valid enum value for path">>
  ELSE <<>>

(* The validators of one schema path, in mongoose's order; the first that  *)
(* fails gives the path's error.  <<>>: the value is valid.                *)
PathError(p, v) ==
  IF p.required.on /\ ~(v.type = "string" /\ Length(v.runs) > 0)
    THEN <<p.required.msg>>
  ELSE IF v.type = "undefined" THEN <<>>
  ELSE IF p.minlength.on /\ Length(v.runs) < p.minlength.n THEN <<p.minlength.msg>>
  ELSE IF p.maxlength.on /\ Length(v.runs) > p.maxlength.n THEN <<p.maxlength.msg>>
  ELSE IF p.enum # {} /\ v \notin p.enum THEN <<"is not a valid enum value for path">>
  ELSE <<>>

(* Validation of the paths `paths` of `doc`: the messages in schema order  *)
RECURSIVE SchemaErrors(_, _, _)
SchemaErrors(schema, doc, paths) ==
  IF schema = <<>> THEN <<>>
  ELSE (IF Head(schema).path \in paths THEN PathError(Head(schema), doc[Head(schema).path]) ELSE <<>>)
       \o SchemaErrors(Tail(schema), doc, paths)

Validate(doc, paths) == SchemaErrors(bugSchema, doc, paths)

SchemaPaths == {"title", "description", "status", "priority", "reporter"}
UpdateFields == {"title", "description", "status", "priority", "assignedTo", "tags"}

(* Casting: the setters and the defaults of every path *)
CastDoc(data) ==
  [title |-> SetTrim(data.title), description |-> SetTrim(data.description),
   status |-> IF data.status.type = "undefined" THEN open ELSE data.status,
   priority |-> IF data.priority.type = "undefined" THEN medium ELSE data.priority,
   reporter |-> SetTrim(data.reporter), assignedTo |-> SetTrim(data.assignedTo),
   tags |-> CastTags(data.tags)]

(* Casting of an update: only the keys it sets *)
CastUpdate(updates) ==
  [f \in UpdateFields |->
     IF updates[f].type = "undefined" THEN Undefined
     ELSE IF f = "tags" THEN CastTags(updates[f])
     ELSE IF f \in {"status", "priority"} THEN updates[f]
     ELSE SetTrim(updates[f])]

(* The document Bug.create stores: timestamps: true sets createdAt, the    *)
(* pre('save') hook then sets updatedAt from a later Date.now().           *)
NewDoc(id, doc, createdAt, updatedAt) ==
  [_id |-> id, title |-> doc.title, description |-> doc.description,
   status |-> doc.status, priority |-> doc.priority, reporter |-> doc.reporter,
   assignedTo |-> doc.assignedTo, tags |-> doc.tags,
   createdAt |-> createdAt, updatedAt |-> updatedAt]

(* Mutant of ApplyUpdate: the document is replaced by the update *)
ApplyUpdate_Replace(bug, upd, now) ==
  [bug EXCEPT
     !.title = upd.title, !.description = upd.description, !.status = upd.status,
     !.priority = upd.priority, !.assignedTo = upd.assignedTo, !.tags = upd.tags,
     !.updatedAt = now]

(* Mutant of ApplyUpdate: the update overwrites the document, and the      *)
(* paths it does not carry, the reporter among them, are unset             *)
ApplyUpdate_Overwrite(bug, upd, now) ==
  [bug EXCEPT
     !.title = upd.title, !.description = upd.description, !.status = upd.status,
     !.priority = upd.priority, !.reporter = Undefined,
     !.assignedTo = upd.assignedTo, !.tags = upd.tags,
     !.updatedAt = now]

(* Mutant of ApplyUpdate: timestamps sets createdAt as on an insert *)
ApplyUpdate_Insert(bug, upd, now) ==
  [bug EXCEPT
     !.title = IF upd.title.type = "undefined" THEN @ ELSE upd.title,
     !.description = IF upd.description.type = "undefined" THEN @ ELSE upd.description,
     !.status = IF upd.status.type = "undefined" THEN @ ELSE upd.status,
     !.priority = IF upd.priority.type = "undefined" THEN @ ELSE upd.priority,
     !.assignedTo = IF upd.assignedTo.type = "undefined" THEN @ ELSE upd.assignedTo,
     !.tags = IF upd.tags.type = "undefined" THEN @ ELSE upd.tags,
     !.createdAt = now,
     !.updatedAt = now]

(* $set of the keys of the update, and updatedAt by timestamps: true *)
ApplyUpdate(bug, upd, now) ==
  [bug EXCEPT
     !.title = IF upd.title.type = "undefined" THEN @ ELSE upd.title,
     !.description = IF upd.description.type = "undefined" THEN @ ELSE upd.description,
     !.status = IF upd.status.type = "undefined" THEN @ ELSE upd.status,
     !.priority = IF upd.priority.type = "undefined" THEN @ ELSE upd.priority,
     !.assignedTo = IF upd.assignedTo.type = "undefined" THEN @ ELSE upd.assignedTo,
     !.tags = IF upd.tags.type = "undefined" THEN @ ELSE upd.tags,
     !.updatedAt = now]

(* ----------------------- utils: formatBugResponse ---------------------- *)
(* Mutant of formatBugResponse: the document is returned as it is stored *)
formatBugResponse_Raw(bug) == bug

formatBugResponse(bug) ==
  [id |-> bug._id, title |-> bug.title, description |-> bug.description,
   status |-> bug.status, priority |-> bug.priority, reporter |-> bug.reporter,
   assignedTo |-> bug.assignedTo, tags |-> bug.tags,
   createdAt |-> bug.createdAt, updatedAt |-> bug.updatedAt]

(* ------------------------- bugController.js ---------------------------- *)
(* Mutant of bugData: the priority of the body is not passed on *)
bugData_NoPriority(body) ==
  [title |-> sanitizeInput(body.title),
   description |-> sanitizeInput(body.description),
   status |-> IF Truthy(body.status) THEN body.status ELSE open,
   priority |-> medium,
   reporter |-> sanitizeInput(body.reporter),
   assignedTo |-> IF Truthy(body.assignedTo) THEN sanitizeInput(body.assignedTo) ELSE Undefined,
   tags |-> IF Truthy(body.tags) THEN body.tags ELSE Arr(<<>>)]

(* createBug, lines 68-76: the document handed to Bug.create *)
bugData(body) ==
  [title |-> sanitizeInput(body.title),
   description |-> sanitizeInput(body.description),
   status |-> IF Truthy(body.status) THEN body.status ELSE open,
   priority |-> IF Truthy(body.priority) THEN body.priority ELSE medium,
   reporter |-> sanitizeInput(body.reporter),
   assignedTo |-> IF Truthy(body.assignedTo) THEN sanitizeInput(body.assignedTo) ELSE Undefined,
   tags |-> IF Truthy(body.tags) THEN body.tags ELSE Arr(<<>>)]

(* Mutant of updates: assignedTo is taken like the other fields, when truthy *)
updates_Truthy(body) ==
  [title |-> IF Truthy(body.title) THEN sanitizeInput(body.title) ELSE Undefined,
   description |-> IF Truthy(body.description) THEN sanitizeInput(body.description) ELSE Undefined,
   status |-> IF Truthy(body.status) THEN body.status ELSE Undefined,
   priority |-> IF Truthy(body.priority) THEN body.priority ELSE Undefined,
   assignedTo |-> IF Truthy(body.assignedTo) THEN sanitizeInput(body.assignedTo) ELSE Undefined,
   tags |-> IF Truthy(body.tags) THEN body.tags ELSE Undefined]

(* updateBug, lines 115-121: the partial update, only the provided fields *)
updates(body) ==
  [title |-> IF Truthy(body.title) THEN sanitizeInput(body.title) ELSE Undefined,
   description |-> IF Truthy(body.description) THEN sanitizeInput(body.description) ELSE Undefined,
   status |-> IF Truthy(body.status) THEN body.status ELSE Undefined,
   priority |-> IF Truthy(body.priority) THEN body.priority ELSE Undefined,
   assignedTo |-> IF body.assignedTo.type # "undefined" THEN sanitizeInput(body.assignedTo) ELSE Undefined,
   tags |-> IF Truthy(body.tags) THEN body.tags ELSE Undefined]

(* Mutant of query: the priority filter is left out *)
query_StatusOnly(q) ==
  [status |-> IF Truthy(q.status) THEN q.status ELSE Undefined, priority |-> Undefined]

(* getAllBugs, lines 12-17: the filter handed to Bug.find *)
query(q) ==
  [status |-> IF Truthy(q.status) THEN q.status ELSE Undefined,
   priority |-> IF Truthy(q.priority) THEN q.priority ELSE Undefined]

(* sortBy = '-createdAt' unless the query string names another key *)
sortBy(q) == IF q.sortBy.type = "undefined" THEN Word("-createdAt", 10) ELSE q.sortBy

(* Bug.find(query): the _ids of the documents equal to the filter on each  *)
(* of its keys.                                                            *)
Find(coll, filter) ==
  { k \in DOMAIN coll :
      /\ filter.status.type = "undefined" \/ coll[k].status = filter.status
      /\ filter.priority.type = "undefined" \/ coll[k].priority = filter.priority }

(* .sort(key): the orders of the found documents that the sort allows;     *)
(* documents of one createdAt come in any order.                           *)
Sort(coll, keys, key) ==
  { o \in [1..Cardinality(keys) -> keys] :
      /\ \A i, j \in DOMAIN o : i # j => o[i] # o[j]
      /\ \A i, j \in DOMAIN o :
           i < j => IF key = Word("-createdAt", 10)
                    THEN coll[o[i]].createdAt >= coll[o[j]].createdAt
                    ELSE coll[o[i]].createdAt <= coll[o[j]].createdAt }

(* Mutant of GroupCount: every group counts one *)
GroupCount_One(coll, field) ==
  { [_id |-> v, count |-> 1] : v \in { coll[k][field] : k \in DOMAIN coll } }

(* Bug.aggregate([{ $group: { _id: '$field', count: { $sum: 1 } } }]) *)
GroupCount(coll, field) ==
  { [_id |-> v, count |-> Cardinality({ k \in DOMAIN coll : coll[k][field] = v })] :
      v \in { coll[k][field] : k \in DOMAIN coll } }

(* Mutant of RemoveById: the collection is emptied *)
RemoveById_All(coll, k) == [j \in {} |-> coll[j]]

(* Bug.findByIdAndDelete *)
RemoveById(coll, k) == [j \in DOMAIN coll \ {k} |-> coll[j]]

(* Mutant of validationError: the error's name is not looked at, and the   *)
(* error goes to the error handler as it is.                               *)
validationError_Passed(errors) == AppError(<<"ValidationError">>, 0)

(* error.name === 'ValidationError': AppError(errors.join(', '), 400) *)
validationError(errors) == AppError(Join(errors, ", "), 400)

(* Mutant of notFound: the missing document is not checked for, and the    *)
(* handler fails on it.                                                    *)
notFound_Unchecked == AppError(<<"TypeError">>, 0)

(* if (!bug) return next(new AppError('Bug not found', 404)) *)
notFound == AppError(<<"Bug not found">>, 404)

(* Any other error goes to next(error) as it is: it has no statusCode *)
otherError(message) == AppError(<<message>>, 0)

(* errorHandler: err.statusCode = err.statusCode || 500 *)
errorStatus(err) == IF err.statusCode = 0 THEN 500 ELSE err.statusCode

(* ------------------------------ requests ------------------------------- *)
X(n) == Run("x", n)
SP(n) == Run(" ", n)
LT == Run("<", 1)
GT == Run(">", 1)

EmptyBody ==
  [title |-> Undefined, description |-> Undefined, status |-> Undefined,
   priority |-> Undefined, reporter |-> Undefined, assignedTo |-> Undefined,
   tags |-> Undefined]

ValidBody ==
  [EmptyBody EXCEPT !.title = Str(X(5)), !.description = Str(X(10)), !.reporter = Str(X(4))]

(* The bodies of POST /api/bugs the model sends *)
CreateBodies ==
  { ValidBody,
    \* every optional field but status; padded and bracketed text, a padded tag
    [ValidBody EXCEPT !.title = Str(SP(1) \o LT \o X(6) \o GT \o SP(2)),
                      !.description = Str(LT \o X(12)),
                      !.priority = high,
                      !.reporter = Str(LT \o X(1) \o GT),
                      !.assignedTo = Str(SP(1) \o LT \o SP(1) \o X(2)),
                      !.tags = Arr(<<Str(SP(1) \o X(2) \o SP(1))>>)],
    \* a client-supplied status; the longest title; a description that is cut
    [ValidBody EXCEPT !.status = resolved,
                      !.title = Str(SP(3) \o X(TitleMax)),
                      !.description = Str(X(SanitizeMax + 1)),
                      !.assignedTo = Str(SP(2))],
    [ValidBody EXCEPT !.status = Word("invalid-status", 14)],
    \* accepted on its length before sanitizing, too short after it
    [ValidBody EXCEPT !.title = Str(LT \o X(2))],
    [ValidBody EXCEPT !.description = Str(X(9) \o GT)],
    [ValidBody EXCEPT !.title = Str(LT \o GT \o LT), !.status = Word("pending", 7)],
    [ValidBody EXCEPT !.title = Str(X(TitleMax + 1))],
    \* several rules violated at once
    EmptyBody,
    [ValidBody EXCEPT !.title = Str(X(2)), !.priority = Word("urgent", 6),
                      !.tags = Word("ui", 2)] }

(* The bodies of PUT /api/bugs/:id the model sends *)
UpdateBodies ==
  { EmptyBody,
    [EmptyBody EXCEPT !.title = Str(X(3) \o LT \o X(1)), !.status = inProgress],
    [EmptyBody EXCEPT !.description = Str(X(11) \o GT), !.priority = low,
                      !.tags = Arr(<<Str(X(2) \o SP(1)), Str(X(1))>>)],
    [EmptyBody EXCEPT !.assignedTo = Str(<<>>)],
    [EmptyBody EXCEPT !.assignedTo = Str(SP(1) \o X(3) \o GT), !.reporter = Str(LT \o X(2))],
    [EmptyBody EXCEPT !.status = Word("invalid-status", 14)],
    [EmptyBody EXCEPT !.title = Str(X(2)), !.priority = Word("urgent", 6)],
    [EmptyBody EXCEPT !.title = Str(GT \o X(2))],
    [EmptyBody EXCEPT !.description = Str(LT \o X(9))],
    [EmptyBody EXCEPT !.tags = Word("ui", 2)] }

(* The bodies sent to an identifier that names no document *)
StrayBodies ==
  { EmptyBody,
    [EmptyBody EXCEPT !.title = Str(X(3) \o LT \o X(1)), !.status = inProgress],
    [EmptyBody EXCEPT !.status = Word("invalid-status", 14)] }

ObjectId(k) == [hex |-> TRUE, len |-> ObjectIdLen, key |-> k]
NoId == [hex |-> FALSE, len |-> 0, key |-> 0]

(* Path identifiers: the ObjectIds assigned so far and one never assigned  *)
(* (key 0), 'invalid-id', and a hexadecimal string one character short.    *)
MalformedIds == { [hex |-> FALSE, len |-> 10, key |-> 0],
                  [hex |-> TRUE, len |-> ObjectIdLen - 1, key |-> 1] }
PathIds == { ObjectId(k) : k \in 0..(nextId - 1) } \cup MalformedIds
StoredIds == { ObjectId(k) : k \in DOMAIN bugs }

(* req.query of GET /api/bugs: ?status= &priority= &sortBy= *)
NoQuery == [status |-> Undefined, priority |-> Undefined, sortBy |-> Undefined]
ListQueries ==
  { NoQuery,
    [NoQuery EXCEPT !.status = open],
    [NoQuery EXCEPT !.status = resolved, !.sortBy = Word("createdAt", 9)],
    [NoQuery EXCEPT !.priority = high],
    [NoQuery EXCEPT !.status = open, !.priority = high],
    [NoQuery EXCEPT !.status = Str(<<>>), !.priority = medium, !.sortBy = Word("createdAt", 9)] }

Slots == {1, 2}
SeqSlots == {1}

Idle ==
  [op |-> "none", id |-> NoId, raw |-> EmptyBody, body |-> EmptyBody, pc |-> "idle",
   status |-> 0, message |-> <<>>, data |-> <<>>, invoked |-> FALSE, ops |-> <<>>,
   query |-> NoQuery, count |-> 0, byStatus |-> {}, byPriority |-> {},
   seen |-> 0, at |-> 0]

InFlight(s) == reqs[s].pc \notin {"idle", "done"}

(* The order of the storage calls: seen is the number of writes executed   *)
(* when the handler's first storage call returned, at is the number of its *)
(* own write among the writes.                                             *)
Seen(r) == [r EXCEPT !.seen = nwrites]
Wrote(r) == [r EXCEPT !.at = nwrites + 1]

(* A response: res.status(code).json(...), or the error handler's answer *)
Respond(r, status, message, data) ==
  [r EXCEPT !.pc = "done", !.status = status, !.message = message, !.data = data]

Fail(r, err) == Respond(r, errorStatus(err), err.message, <<>>)

Issue(r, operation) == [r EXCEPT !.ops = Append(@, operation)]

(* routes/bugRoutes.js: the middleware in front of each controller *)
RouteHasId(op) == op \in {"get", "update", "delete"}
RouteChains(op) ==
  CASE op = "create" -> createBugValidation
    [] op = "update" -> updateBugValidation
    [] OTHER -> <<>>
FirstAwait(op) ==
  CASE op = "create" -> "Bug.create"
    [] op = "list" -> "find"
    [] op = "stats" -> "aggregateStatus"
    [] OTHER -> "findById"

(* The request passes the validation chains of its route, then            *)
(* validateRequest, which ends it with a 400 or calls the controller; the  *)
(* controller runs to its first await.                                     *)
Route(s, op, id, body) ==
  LET idErrs == IF RouteHasId(op) THEN RunChain(bugIdValidation[1], id).errors ELSE <<>>
      ran == RunChains(RouteChains(op), body, idErrs)
      v == validateRequest(ran.errors)
      r == [Idle EXCEPT !.op = op, !.id = id, !.raw = body, !.body = ran.body]
  IN IF v.pass
     THEN [r EXCEPT !.pc = FirstAwait(op), !.invoked = TRUE]
     ELSE Fail(r, v.error)

Arrive(s, op, id, body, q) ==
  /\ reqs[s].pc = "idle"
  /\ nwrites + Cardinality({t \in Slots : InFlight(t)}) < MaxWrites
  /\ reqs' = [reqs EXCEPT ![s] = [Route(s, op, id, body) EXCEPT !.query = q]]
  /\ UNCHANGED <<bugs, nextId, clock, nwrites, call, front>>

Request(s, op, id, body) == Arrive(s, op, id, body, NoQuery)

PostBug(s) == \E body \in CreateBodies : Request(s, "create", NoId, body)
GetBug(s) == \E id \in PathIds : Request(s, "get", id, EmptyBody)
PutBug(s) ==
  \E id \in PathIds :
    \E body \in IF id \in StoredIds THEN UpdateBodies ELSE StrayBodies :
      Request(s, "update", id, body)
DeleteBug(s) == \E id \in PathIds : Request(s, "delete", id, EmptyBody)
ListBugs(s) == \E q \in ListQueries : Arrive(s, "list", NoId, EmptyBody, q)
StatsBugs(s) == Request(s, "stats", NoId, EmptyBody)

(* Date.now() at a write: the clock may have advanced since the last one *)
Nows == { t \in {clock, clock + 1} : t <= MaxClock }

(* Bug.findById: a CastError for an id that is no ObjectId *)
FindById(id) ==
  IF ~isMongoId(id) THEN [error |-> TRUE, found |-> FALSE]
  ELSE [error |-> FALSE, found |-> id.key \in DOMAIN bugs]

(* createBug, the await of Bug.create: cast, validate, insert *)
createBug(s) ==
  LET r == Seen(Issue(reqs[s], "create"))
      doc == CastDoc(bugData(r.body))
      errs == Validate(doc, SchemaPaths)
  IN /\ reqs[s].pc = "Bug.create"
     /\ IF errs # <<>>
        THEN /\ reqs' = [reqs EXCEPT ![s] = Fail(r, validationError(errs))]
             /\ UNCHANGED <<bugs, nextId, clock, nwrites, call, front>>
        ELSE \E now \in Nows : \E saved \in { t \in {now, now + 1} : t <= MaxClock } :
               LET bug == NewDoc(nextId, doc, now, saved)
               IN /\ bugs' = (nextId :> bug) @@ bugs
                  /\ nextId' = nextId + 1
                  /\ clock' = saved
                  /\ nwrites' = nwrites + 1
                  /\ reqs' = [reqs EXCEPT ![s] =
                       Respond(Wrote(r), 201, <<>>, <<formatBugResponse(bug)>>)]
                  /\ UNCHANGED <<call, front>>

(* getBugById *)
getBugById(s) ==
  LET r == Issue(reqs[s], "findById")
      f == FindById(r.id)
  IN /\ reqs[s].pc = "findById" /\ reqs[s].op = "get"
     /\ reqs' = [reqs EXCEPT ![s] =
          IF f.error THEN Fail(r, otherError("CastError"))
          ELSE IF ~f.found THEN Fail(r, notFound)
          ELSE Respond(r, 200, <<>>, <<formatBugResponse(bugs[r.id.key])>>)]
     /\ UNCHANGED <<bugs, nextId, clock, nwrites, call, front>>

(* updateBug and deleteBug, the await of Bug.findById *)
findForWrite(s) ==
  LET r == Seen(Issue(reqs[s], "findById"))
      f == FindById(r.id)
  IN /\ reqs[s].pc = "findById" /\ reqs[s].op \in {"update", "delete"}
     /\ reqs' = [reqs EXCEPT ![s] =
          IF f.error THEN Fail(r, otherError("CastError"))
          ELSE IF ~f.found THEN Fail(r, notFound)
          ELSE [r EXCEPT !.pc = IF r.op = "update" THEN "findByIdAndUpdate"
                                                  ELSE "findByIdAndDelete"]]
     /\ UNCHANGED <<bugs, nextId, clock, nwrites, call, front>>

(* updateBug, the await of Bug.findByIdAndUpdate with runValidators: the   *)
(* update is cast and validated, then applied to the document if it is     *)
(* still there; the result is null otherwise and updatedBug._id throws.    *)
updateBug(s) ==
  LET r == Issue(reqs[s], "findByIdAndUpdate")
      upd == CastUpdate(updates(r.body))
      set == { f \in UpdateFields : upd[f].type # "undefined" }
      errs == Validate(upd, set \cap SchemaPaths)
  IN /\ reqs[s].pc = "findByIdAndUpdate"
     /\ IF errs # <<>>
        THEN /\ reqs' = [reqs EXCEPT ![s] = Fail(r, validationError(errs))]
             /\ UNCHANGED <<bugs, nextId, clock, nwrites, call, front>>
        ELSE IF r.id.key \notin DOMAIN bugs
        THEN /\ reqs' = [reqs EXCEPT ![s] = Fail(r, otherError("TypeError"))]
             /\ UNCHANGED <<bugs, nextId, clock, nwrites, call, front>>
        ELSE \E now \in Nows :
               LET bug == ApplyUpdate(bugs[r.id.key], upd, now)
               IN /\ bugs' = [bugs EXCEPT ![r.id.key] = bug]
                  /\ clock' = now
                  /\ nwrites' = nwrites + 1
                  /\ reqs' = [reqs EXCEPT ![s] =
                       Respond(Wrote(r), 200, <<>>, <<formatBugResponse(bug)>>)]
                  /\ UNCHANGED <<nextId, call, front>>

(* deleteBug, the await of Bug.findByIdAndDelete *)
deleteBug(s) ==
  LET r == Issue(reqs[s], "findByIdAndDelete")
  IN /\ reqs[s].pc = "findByIdAndDelete"
     /\ bugs' = RemoveById(bugs, r.id.key)
     /\ nwrites' = nwrites + 1
     /\ reqs' = [reqs EXCEPT ![s] = Respond(Wrote(r), 200, <<"Bug deleted successfully">>, <<>>)]
     /\ UNCHANGED <<nextId, clock, call, front>>

(* getAllBugs, the await of Bug.find(query).sort(sortBy) *)
getAllBugs(s) ==
  LET r == Issue(reqs[s], "find")
      found == Find(bugs, query(r.query))
  IN /\ reqs[s].pc = "find"
     /\ \E o \in Sort(bugs, found, sortBy(r.query)) :
          reqs' = [reqs EXCEPT ![s] =
            [Respond(r, 200, <<>>, [i \in DOMAIN o |-> formatBugResponse(bugs[o[i]])])
               EXCEPT !.count = Len(o)]]
     /\ UNCHANGED <<bugs, nextId, clock, nwrites, call, front>>

(* getBugStats, the await of the aggregate by status *)
aggregateStatus(s) ==
  LET r == Seen(Issue(reqs[s], "aggregate"))
  IN /\ reqs[s].pc = "aggregateStatus"
     /\ reqs' = [reqs EXCEPT ![s] =
          [r EXCEPT !.pc = "aggregatePriority", !.byStatus = GroupCount(bugs, "status")]]
     /\ UNCHANGED <<bugs, nextId, clock, nwrites, call, front>>

(* getBugStats, the await of the aggregate by priority, and the response *)
aggregatePriority(s) ==
  LET r == Issue(reqs[s], "aggregate")
  IN /\ reqs[s].pc = "aggregatePriority"
     /\ reqs' = [reqs EXCEPT ![s] =
          [Respond(r, 200, <<>>, <<>>) EXCEPT !.byPriority = GroupCount(bugs, "priority")]]
     /\ UNCHANGED <<bugs, nextId, clock, nwrites, call, front>>

(* The response has been sent: the request is over and its slot is free *)
EndRequest(s) ==
  /\ reqs[s].pc = "done"
  /\ reqs' = [reqs EXCEPT ![s] = Idle]
  /\ UNCHANGED <<bugs, nextId, clock, nwrites, call, front>>

(* ============================== frontend =============================== *)
(* --------------------- services/bugService.js -------------------------- *)
(* A response body of the API: { success, message, data }; data is a list  *)
(* of bugs, of one bug for a single record.                                *)
Body(success, message, data) == [success |-> success, message |-> message, data |-> data]
NoBody == Body(FALSE, Undefined, <<>>)

(* How an axios request ends: resolved with a 2xx response, or rejected    *)
(* with an error that has a response, only a request, or neither.          *)
Resolved(body) ==
  [ok |-> TRUE, response |-> TRUE, request |-> TRUE, data |-> body, message |-> Undefined]
Rejected(response, request, body, message) ==
  [ok |-> FALSE, response |-> response, request |-> request, data |-> body,
   message |-> message]
NoOutcome == Rejected(FALSE, FALSE, NoBody, Undefined)

(* Mutant of handleApiError: the error's own message is passed on *)
handleApiError_Raw(error) == error.message

(* handleApiError: the message of the Error that is thrown *)
handleApiError(error) ==
  IF error.response
  THEN IF Truthy(error.data.message) THEN error.data.message
       ELSE Word("An error occurred", 17)
  ELSE IF error.request
  THEN Word("No response from server. Please check your connection.", 54)
  ELSE IF Truthy(error.message) THEN error.message
       ELSE Word("An unexpected error occurred", 28)

(* What a bugService operation gives its caller *)
Returned(body) == [threw |-> FALSE, body |-> body, message |-> Undefined]
Thrown(message) == [threw |-> TRUE, body |-> NoBody, message |-> message]

NoResult == Thrown(Undefined)

(* getAllBugs .. getBugStats: try { return (await apiClient...).data }     *)
(* catch (error) { throw handleApiError(error) }                           *)
bugService(outcome) ==
  IF outcome.ok THEN Returned(outcome.data) ELSE Thrown(handleApiError(outcome))

ServiceOps ==
  {"getAllBugs", "getBugById", "createBug", "updateBug", "deleteBug", "getBugStats"}

(* ------------------------------ the API -------------------------------- *)
(* A bug as the frontend lists it *)
Item(id, status, priority) == [id |-> id, status |-> status, priority |-> priority]
NoFilter == [status |-> Str(<<>>), priority |-> Str(<<>>)]
NoArg == [id |-> 0, filter |-> NoFilter, status |-> Undefined, priority |-> Undefined]

(* The bugs the server holds when the page is opened *)
Held == (1 :> Item(1, open, high)) @@ (2 :> Item(2, resolved, medium))

(* The held bugs of a set of ids, the newest (largest id) first *)
RECURSIVE Newest(_, _)
Newest(held, ids) ==
  IF ids = {} THEN <<>>
  ELSE LET k == CHOOSE k \in ids : \A j \in ids : j <= k
       IN <<held[k]>> \o Newest(held, ids \ {k})

(* bugService.getAllBugs sends a filter only when it is not '' *)
Listing(held, filter) ==
  Newest(held, { k \in DOMAIN held :
                   /\ ~Truthy(filter.status) \/ held[k].status = filter.status
                   /\ ~Truthy(filter.priority) \/ held[k].priority = filter.priority })

(* The server's answer to a request, and the bugs it holds afterwards *)
Answer(op, arg, srv) ==
  CASE op = "getAllBugs" ->
         [outcome |-> Resolved(Body(TRUE, Undefined, Listing(srv.held, arg.filter))),
          server |-> srv]
    [] op = "getBugStats" ->
         [outcome |-> Resolved(Body(TRUE, Undefined, <<>>)), server |-> srv]
    [] op = "createBug" ->
         [outcome |-> Resolved(Body(TRUE, Undefined, <<Item(srv.next, open, arg.priority)>>)),
          server |-> [held |-> (srv.next :> Item(srv.next, open, arg.priority)) @@ srv.held,
                      next |-> srv.next + 1]]
    [] arg.id \notin DOMAIN srv.held ->
         [outcome |-> Rejected(TRUE, TRUE, Body(FALSE, Word("Bug not found", 13), <<>>),
                               Word("Request failed with status code 404", 35)),
          server |-> srv]
    [] op = "getBugById" ->
         [outcome |-> Resolved(Body(TRUE, Undefined, <<srv.held[arg.id]>>)), server |-> srv]
    [] op = "updateBug" ->
         LET bug == [srv.held[arg.id] EXCEPT !.status = arg.status]
         IN [outcome |-> Resolved(Body(TRUE, Undefined, <<bug>>)),
             server |-> [srv EXCEPT !.held[arg.id] = bug]]
    [] op = "deleteBug" ->
         [outcome |-> Resolved(Body(TRUE, Word("Bug deleted successfully", 24), <<>>)),
          server |-> [srv EXCEPT !.held = [k \in DOMAIN srv.held \ {arg.id} |-> srv.held[k]]]]

(* A failure inside the server: a 500 whose body has no message *)
ServerError ==
  Rejected(TRUE, TRUE, NoBody, Word("Request failed with status code 500", 35))

(* ----------------------------- BugForm.jsx ----------------------------- *)
EmptyForm ==
  [title |-> Str(<<>>), description |-> Str(<<>>), priority |-> medium,
   reporter |-> Str(<<>>), assignedTo |-> Str(<<>>), tags |-> Str(<<>>)]
NoErrors ==
  [title |-> Undefined, description |-> Undefined, reporter |-> Undefined,
   submit |-> Undefined]

(* What the user types into the fields *)
Typed ==
  [title |-> {Str(SP(1) \o X(2) \o SP(1)), Str(X(3))},
   description |-> {Str(X(9) \o SP(1)), Str(X(10))},
   reporter |-> {Str(SP(1)), Str(X(4))}]

(* Mutant of validateForm: the lengths are taken without trimming *)
validateForm_Untrimmed(formData) ==
  [NoErrors EXCEPT
     !.title = IF Length(formData.title.runs) = 0 THEN Word("Title is required", 17)
               ELSE IF Length(formData.title.runs) < 3
               THEN Word("Title must be at least 3 characters", 35)
               ELSE Undefined,
     !.description = IF Length(formData.description.runs) = 0
                     THEN Word("Description is required", 23)
                     ELSE IF Length(formData.description.runs) < 10
                     THEN Word("Description must be at least 10 characters", 42)
                     ELSE Undefined,
     !.reporter = IF Length(formData.reporter.runs) = 0
                  THEN Word("Reporter name is required", 25)
                  ELSE Undefined]

(* validateForm: newErrors *)
validateForm(formData) ==
  [NoErrors EXCEPT
     !.title = IF Length(Trim(formData.title.runs)) = 0 THEN Word("Title is required", 17)
               ELSE IF Length(Trim(formData.title.runs)) < 3
               THEN Word("Title must be at least 3 characters", 35)
               ELSE Undefined,
     !.description = IF Length(Trim(formData.description.runs)) = 0
                     THEN Word("Description is required", 23)
                     ELSE IF Length(Trim(formData.description.runs)) < 10
                     THEN Word("Description must be at least 10 characters", 42)
                     ELSE Undefined,
     !.reporter = IF Length(Trim(formData.reporter.runs)) = 0
                  THEN Word("Reporter name is required", 25)
                  ELSE Undefined]

(* ------------------------------- App.js -------------------------------- *)
(* The service call number n by the handler `by` *)
Sent(n, op, by, arg) ==
  [n |-> n, op |-> op, by |-> by, arg |-> arg, pc |-> "sent", outcome |-> NoOutcome,
   result |-> NoResult]

CallOf(n) == CHOOSE c \in http.calls : c.n = n
Numbers == { c.n : c \in http.calls }

Send(op, by, arg) ==
  /\ http.n < MaxCalls
  /\ http' = [n |-> http.n + 1,
              calls |-> http.calls \cup {Sent(http.n + 1, op, by, arg)}]

(* useEffect(() => { fetchBugs() }, [filter]): runs after the first render *)
(* and after every render with a new filter object.  fetchBugs up to its   *)
(* await.                                                                  *)
useEffect ==
  /\ app.ran # app.ver
  /\ Send("getAllBugs", "fetchBugs", [NoArg EXCEPT !.filter = app.filter])
  /\ app' = [app EXCEPT !.ran = app.ver, !.fetch = http.n + 1, !.loading = TRUE,
                         !.error = Null]
  /\ UNCHANGED <<form, server, back>>

(* handleFilterChange: a select takes another value *)
handleFilterChange ==
  /\ app.ver < MaxFilters
  /\ \E name \in {"status", "priority"} :
       \E value \in (IF name = "status" THEN {Str(<<>>), open, resolved}
                                        ELSE {Str(<<>>), high}) \ {app.filter[name]} :
         app' = [app EXCEPT !.filter[name] = value, !.ver = @ + 1]
  /\ UNCHANGED <<form, http, server, back>>

(* clearFilters: a new filter object, whatever the filter was *)
clearFilters ==
  /\ app.ver < MaxFilters
  /\ app' = [app EXCEPT !.filter = NoFilter, !.ver = @ + 1]
  /\ UNCHANGED <<form, http, server, back>>

(* BugList renders its items unless loading or error is set *)
Listed == IF app.loading \/ app.error # Null THEN {} ELSE { app.bugs[i].id : i \in DOMAIN app.bugs }

(* handleDeleteBug up to its await *)
handleDeleteBug ==
  /\ \E id \in Listed : Send("deleteBug", "handleDeleteBug", [NoArg EXCEPT !.id = id])
  /\ UNCHANGED <<app, form, server, back>>

(* handleUpdateBug up to its await: BugItem sends { status } *)
handleUpdateBug ==
  /\ \E id \in Listed :
       Send("updateBug", "handleUpdateBug", [NoArg EXCEPT !.id = id, !.status = closed])
  /\ UNCHANGED <<app, form, server, back>>

(* The operations App does not use, called as the service's tests do, one  *)
(* at a time                                                               *)
callService ==
  /\ http.calls = {}
  /\ \/ \E id \in {1, 9} : Send("getBugById", "test", [NoArg EXCEPT !.id = id])
     \/ Send("getBugStats", "test", NoArg)
     \/ Send("createBug", "test", [NoArg EXCEPT !.priority = medium])
  /\ UNCHANGED <<app, form, server, back>>

(* BugForm.handleChange *)
handleChange ==
  /\ \E name \in DOMAIN Typed : \E value \in Typed[name] \cup {Str(<<>>)} :
       /\ value # form.formData[name]
       /\ form' = [form EXCEPT !.formData[name] = value,
                               !.errors[name] = IF Truthy(@) THEN Str(<<>>) ELSE @]
  /\ UNCHANGED <<app, http, server, back>>

(* BugForm.handleSubmit up to its await: the buttons are disabled while    *)
(* isSubmitting; onSubmit is App.handleCreateBug, which calls createBug.   *)
handleSubmit ==
  /\ ~form.isSubmitting
  /\ LET newErrors == validateForm(form.formData)
     IN IF newErrors # NoErrors
        THEN /\ form' = [form EXCEPT !.errors = newErrors]
             /\ UNCHANGED http
        ELSE /\ Send("createBug", "handleCreateBug",
                     [NoArg EXCEPT !.priority = form.formData.priority])
             /\ form' = [form EXCEPT !.errors = newErrors, !.isSubmitting = TRUE]
  /\ UNCHANGED <<app, server, back>>

(* The call c settles with an outcome: the service operation returns the   *)
(* body or throws.                                                         *)
Settled(c, outcome) ==
  [c EXCEPT !.pc = "settled", !.outcome = outcome, !.result = bugService(outcome)]

(* The server handles a request that was sent: it answers as the API does, *)
(* or fails with a 500.                                                    *)
Serve ==
  /\ \E c \in http.calls :
       /\ c.pc = "sent"
       /\ \/ LET a == Answer(c.op, c.arg, server)
             IN /\ server' = a.server
                /\ http' = [http EXCEPT !.calls = (@ \ {c}) \cup {Settled(c, a.outcome)}]
          \/ /\ server' = server
             /\ http' = [http EXCEPT !.calls = (@ \ {c}) \cup {Settled(c, ServerError)}]
  /\ UNCHANGED <<app, form, back>>

(* No response arrives within axios's timeout, whether the server handled  *)
(* the request or not.                                                     *)
Lose ==
  /\ \E c \in http.calls :
       /\ c.pc = "sent"
       /\ server' \in {server, Answer(c.op, c.arg, server).server}
       /\ http' = [http EXCEPT !.calls = (@ \ {c}) \cup
                     {Settled(c, Rejected(FALSE, TRUE, NoBody,
                                          Word("timeout of 10000ms exceeded", 27)))}]
  /\ UNCHANGED <<app, form, back>>

(* The request is never sent: an error while it is set up *)
Abort ==
  /\ \E c \in http.calls :
       /\ c.pc = "sent"
       /\ \E message \in {Word("Network Error", 13), Undefined} :
            http' = [http EXCEPT !.calls = (@ \ {c}) \cup
                       {Settled(c, Rejected(FALSE, FALSE, NoBody, message))}]
  /\ UNCHANGED <<app, form, server, back>>

(* Mutant of ResumeApp: handleDeleteBug removes the bug whatever the call  *)
(* gave.                                                                   *)
ResumeApp_Optimistic(c, r) ==
  CASE c.by = "fetchBugs" ->
         IF r.threw THEN [app EXCEPT !.error = r.message, !.loading = FALSE]
         ELSE [app EXCEPT !.bugs = r.body.data, !.shown = c.n, !.loading = FALSE]
    [] c.by = "handleCreateBug" ->
         IF r.threw THEN app ELSE [app EXCEPT !.bugs = r.body.data \o @]
    [] c.by = "handleUpdateBug" ->
         IF r.threw THEN app
         ELSE [app EXCEPT !.bugs =
                 [i \in DOMAIN @ |-> IF @[i].id = c.arg.id THEN r.body.data[1] ELSE @[i]]]
    [] c.by = "handleDeleteBug" ->
         [app EXCEPT !.bugs = SelectSeq(@, LAMBDA b : b.id # c.arg.id)]
    [] OTHER -> app

(* App after the await of the service call c, which gave r: fetchBugs,     *)
(* handleCreateBug, handleUpdateBug, handleDeleteBug.                      *)
ResumeApp(c, r) ==
  CASE c.by = "fetchBugs" ->
         IF r.threw THEN [app EXCEPT !.error = r.message, !.loading = FALSE]
         ELSE [app EXCEPT !.bugs = r.body.data, !.shown = c.n, !.loading = FALSE]
    [] c.by = "handleCreateBug" ->
         IF r.threw THEN app ELSE [app EXCEPT !.bugs = r.body.data \o @]
    [] c.by = "handleUpdateBug" ->
         IF r.threw THEN app
         ELSE [app EXCEPT !.bugs =
                 [i \in DOMAIN @ |-> IF @[i].id = c.arg.id THEN r.body.data[1] ELSE @[i]]]
    [] c.by = "handleDeleteBug" ->
         IF r.threw THEN app
         ELSE [app EXCEPT !.bugs = SelectSeq(@, LAMBDA b : b.id # c.arg.id)]
    [] OTHER -> app

(* Mutants of ResumeForm: the form is reset whatever onSubmit gave; the    *)
(* form stays submitting when onSubmit rejected.                           *)
ResumeForm_Reset(c, r) ==
  IF c.by # "handleCreateBug" THEN form
  ELSE [form EXCEPT !.formData = EmptyForm, !.isSubmitting = FALSE]

ResumeForm_NoFinally(c, r) ==
  IF c.by # "handleCreateBug" THEN form
  ELSE IF r.threw
  THEN [form EXCEPT !.errors = [NoErrors EXCEPT !.submit = r.message]]
  ELSE [form EXCEPT !.formData = EmptyForm, !.isSubmitting = FALSE]

(* BugForm.handleSubmit after the await of onSubmit, which rethrows what   *)
(* createBug threw.                                                        *)
ResumeForm(c, r) ==
  IF c.by # "handleCreateBug" THEN form
  ELSE IF r.threw
  THEN [form EXCEPT !.errors = [NoErrors EXCEPT !.submit = r.message],
                    !.isSubmitting = FALSE]
  ELSE [form EXCEPT !.formData = EmptyForm, !.isSubmitting = FALSE]

(* The handler that awaited the service operation runs on *)
Resume ==
  /\ \E c \in http.calls :
       /\ c.pc = "settled"
       /\ app' = ResumeApp(c, c.result)
       /\ form' = ResumeForm(c, c.result)
       /\ http' = [http EXCEPT !.calls = @ \ {c}]
  /\ UNCHANGED <<server, back>>

(* The page before its first effect has run *)
InitFront ==
  /\ app = [bugs |-> <<>>, loading |-> TRUE, error |-> Null, filter |-> NoFilter,
            ver |-> 1, ran |-> 0, fetch |-> 0, shown |-> 0]
  /\ form = [formData |-> EmptyForm, errors |-> NoErrors, isSubmitting |-> FALSE]
  /\ http = [n |-> 0, calls |-> {}]
  /\ server = [held |-> Held, next |-> 3]

(* No utility function is being called on its own *)
NoCall == [fn |-> "none", arg |-> Undefined, out |-> <<>>]

Init ==
  /\ bugs = <<>>
  /\ nextId = 1
  /\ clock = 0
  /\ reqs = [s \in Slots |-> Idle]
  /\ nwrites = 0
  /\ call = NoCall
  /\ InitFront

(* One request at a time: the next request arrives when the last is answered *)
Next ==
  \E s \in SeqSlots :
    \/ PostBug(s)
    \/ GetBug(s)
    \/ PutBug(s)
    \/ DeleteBug(s)
    \/ ListBugs(s)
    \/ StatsBugs(s)
    \/ createBug(s)
    \/ getBugById(s)
    \/ findForWrite(s)
    \/ updateBug(s)
    \/ deleteBug(s)
    \/ getAllBugs(s)
    \/ aggregateStatus(s)
    \/ aggregatePriority(s)
    \/ EndRequest(s)

Spec == Init /\ [][Next]_vars

(* ------------------- the utility functions on their own ---------------- *)
(* The texts of at most MaxRuns runs of letters, blanks, '<' and '>', each *)
(* run of one character or of as many as sanitizeInput keeps.              *)
Texts ==
  { Str(runs) : runs \in
      { t \in UNION { [1..n -> [c : {"x", " ", "<", ">"}, n : {1, SanitizeMax}]] : n \in 0..MaxRuns } :
          \A i \in 1..(Len(t) - 1) : t[i].c # t[i + 1].c } }

NotTexts == { Undefined, Null, Number, Arr(<<>>), Arr(<<Str(X(1))>>) }

(* The values handed to isValidStatus and isValidPriority *)
Probes ==
  validStatuses \cup validPriorities \cup
  { Str(<<>>), Undefined, Null, Word("in-progres", 10), Word("pending", 7),
    Word("Open", 4), Word("HIGH", 4), Word("urgent", 6),
    Str(SP(1) \o Run("open", 4) \o SP(1)), Str(Run("high", 4) \o SP(1)) }

Calls ==
  { [fn |-> "sanitizeInput", arg |-> v, out |-> <<>>] : v \in Texts \cup NotTexts }
  \cup { [fn |-> f, arg |-> v, out |-> <<>>] :
            f \in {"isValidStatus", "isValidPriority"}, v \in Probes }

(* sanitizeInput, applied to the argument and then to its own result *)
CallSanitizeInput ==
  /\ call.fn = "sanitizeInput" /\ Len(call.out) < 2
  /\ LET input == IF call.out = <<>> THEN call.arg ELSE call.out[Len(call.out)]
     IN call' = [call EXCEPT !.out = Append(@, sanitizeInput(input))]
  /\ UNCHANGED <<bugs, nextId, clock, reqs, nwrites, front>>

CallIsValidStatus ==
  /\ call.fn = "isValidStatus" /\ call.out = <<>>
  /\ call' = [call EXCEPT !.out = <<isValidStatus(call.arg)>>]
  /\ UNCHANGED <<bugs, nextId, clock, reqs, nwrites, front>>

CallIsValidPriority ==
  /\ call.fn = "isValidPriority" /\ call.out = <<>>
  /\ call' = [call EXCEPT !.out = <<isValidPriority(call.arg)>>]
  /\ UNCHANGED <<bugs, nextId, clock, reqs, nwrites, front>>

InitUtils ==
  /\ bugs = <<>>
  /\ nextId = 1
  /\ clock = 0
  /\ reqs = [s \in Slots |-> Idle]
  /\ nwrites = 0
  /\ call \in Calls
  /\ InitFront

NextUtils == CallSanitizeInput \/ CallIsValidStatus \/ CallIsValidPriority

SpecUtils == InitUtils /\ [][NextUtils]_vars

(* ----------------------- requests handled concurrently ------------------ *)
(* Requests of two clients: each handler runs to its next await, and the   *)
(* handlers of the two requests interleave at their awaits.                *)
ConcCreates == { [ValidBody EXCEPT !.priority = high] }
ConcUpdates ==
  { [EmptyBody EXCEPT !.title = Str(X(3) \o LT \o X(1)), !.status = inProgress],
    [EmptyBody EXCEPT !.status = resolved, !.priority = low] }

PostConc(s) == \E body \in ConcCreates : Request(s, "create", NoId, body)
PutConc(s) ==
  \E id \in StoredIds : \E body \in ConcUpdates : Request(s, "update", id, body)
DeleteConc(s) == \E id \in StoredIds : Request(s, "delete", id, EmptyBody)

NextConc ==
  \E s \in Slots :
    \/ PostConc(s)
    \/ PutConc(s)
    \/ DeleteConc(s)
    \/ StatsBugs(s)
    \/ createBug(s)
    \/ findForWrite(s)
    \/ updateBug(s)
    \/ deleteBug(s)
    \/ aggregateStatus(s)
    \/ aggregatePriority(s)
    \/ EndRequest(s)

SpecConc == Init /\ [][NextConc]_vars

(* ------------------------- the frontend on its own --------------------- *)
(* The network and the service, under every handler *)
NextService ==
  \/ Serve
  \/ Lose
  \/ Abort
  \/ Resume

(* App with its list and filters; the form is left alone *)
NextApp ==
  \/ useEffect
  \/ handleFilterChange
  \/ clearFilters
  \/ handleDeleteBug
  \/ handleUpdateBug
  \/ callService
  \/ NextService

SpecApp == Init /\ [][NextApp]_vars

(* BugForm in App; the filters and the list's buttons are left alone *)
NextForm ==
  \/ useEffect
  \/ handleChange
  \/ handleSubmit
  \/ NextService

SpecForm == Init /\ [][NextForm]_vars

(* ======================= properties of the backend ===================== *)
StatusEnumeration ==
  {Word("open", 4), Word("in-progress", 11), Word("resolved", 8), Word("closed", 6)}
PriorityEnumeration ==
  {Word("low", 3), Word("medium", 6), Word("high", 4), Word("critical", 8)}

Present(v) == v.type # "undefined"
WellFormedId(id) == id.hex /\ id.len = 24
TextFields == {"title", "description", "reporter", "assignedTo"}

(* The step in which the request of slot s arrives *)
Arrives(s) == reqs[s].pc = "idle" /\ reqs'[s].pc # "idle"
(* The step in which the handler of slot s leaves position pc *)
Leaves(s, pc) == reqs[s].pc = pc /\ reqs'[s].pc # pc

(* C1: every stored record has a status of the status enumeration and a    *)
(* priority of the priority enumeration, whatever create, update and       *)
(* delete requests were made, a create with a client-supplied status       *)
(* included.                                                               *)
C1_EnumeratedFields ==
  \A k \in DOMAIN bugs :
    /\ bugs[k].status \in StatusEnumeration
    /\ bugs[k].priority \in PriorityEnumeration

(* A create that carried a status outside the enumeration passed request   *)
(* validation and was refused by the storage, after a create that carried  *)
(* its own status was stored with it.                                      *)
C1_Witness ==
  /\ \E s \in Slots :
       /\ reqs[s].op = "create" /\ reqs[s].status = 400 /\ reqs[s].invoked
       /\ Present(reqs[s].raw.status) /\ reqs[s].raw.status \notin StatusEnumeration
  /\ \E k \in DOMAIN bugs : bugs[k].status = Word("resolved", 8)

(* C2: every stored record has a title of 3 to 200 characters and a        *)
(* description of at least 10 characters, measured on the stored value.    *)
C2_StoredLengths ==
  \A k \in DOMAIN bugs :
    /\ Length(bugs[k].title.runs) >= 3
    /\ Length(bugs[k].title.runs) <= 200
    /\ Length(bugs[k].description.runs) >= 10

(* A title or description that request validation accepted on its length   *)
(* before sanitizing and that is too short once '<' and '>' are removed    *)
(* reached the controller.                                                 *)
C2_Witness ==
  \E s \in Slots :
    /\ reqs[s].pc = "done" /\ reqs[s].invoked /\ reqs[s].op \in {"create", "update"}
    /\ \/ /\ Present(reqs[s].raw.title)
          /\ Length(Trim(reqs[s].raw.title.runs)) >= 3
          /\ Length(StripAngle(Trim(reqs[s].raw.title.runs))) < 3
       \/ /\ Present(reqs[s].raw.description)
          /\ Length(Trim(reqs[s].raw.description.runs)) >= 10
          /\ Length(StripAngle(Trim(reqs[s].raw.description.runs))) < 10

(* The update contract: every field optional; a title of 3-200 characters  *)
(* after trimming, a description of at least 10, a status and a priority   *)
(* of their enumerations, tags an array.                                   *)
ViolatesUpdateContract(b) ==
  \/ Present(b.title) /\ ~(Length(Trim(b.title.runs)) \in 3..200)
  \/ Present(b.description) /\ Length(Trim(b.description.runs)) < 10
  \/ Present(b.status) /\ b.status \notin StatusEnumeration
  \/ Present(b.priority) /\ b.priority \notin PriorityEnumeration
  \/ Present(b.tags) /\ b.tags.type # "array"

(* C3: an update request on an existing record whose body violates the     *)
(* update contract is answered 400 and leaves the collection as it was.    *)
C3_InvalidUpdateRejected ==
  [][\A s \in Slots :
       ( /\ Arrives(s)
         /\ reqs'[s].op = "update"
         /\ WellFormedId(reqs'[s].id) /\ reqs'[s].id.key \in DOMAIN bugs
         /\ ViolatesUpdateContract(reqs'[s].raw) )
       => /\ reqs'[s].pc = "done"
          /\ reqs'[s].status = 400
          /\ bugs' = bugs]_vars

C3_Witness ==
  \E s \in Slots :
    /\ reqs[s].op = "update" /\ reqs[s].pc = "done" /\ reqs[s].status = 400
    /\ reqs[s].id.key \in DOMAIN bugs
    /\ reqs[s].raw.status = Word("invalid-status", 14)

Stray(id) == WellFormedId(id) /\ id.key \notin DOMAIN bugs

(* C5, as stated: with one request at a time, a get, update or delete      *)
(* request whose identifier is well-formed and names no record reaches the *)
(* lookup and is answered 404 'Bug not found', the collection unchanged.   *)
C5_Original ==
  [][\A s \in Slots :
       /\ ( Arrives(s) /\ reqs'[s].op \in {"get", "update", "delete"} /\ Stray(reqs'[s].id) )
            => reqs'[s].pc = "findById"
       /\ ( Leaves(s, "findById") /\ Stray(reqs[s].id) )
            => /\ reqs'[s].pc = "done"
               /\ reqs'[s].status = 404
               /\ reqs'[s].message = <<"Bug not found">>
               /\ bugs' = bugs]_vars

(* C5, amended: the same for a get or a delete request, and for an update  *)
(* request whose body satisfies the update contract; an update whose body  *)
(* violates it is answered 400 before the lookup.                          *)
C5_StrayIdNotFound ==
  [][\A s \in Slots :
       /\ ( /\ Arrives(s) /\ reqs'[s].op \in {"get", "update", "delete"}
            /\ Stray(reqs'[s].id)
            /\ ~(reqs'[s].op = "update" /\ ViolatesUpdateContract(reqs'[s].raw)) )
            => reqs'[s].pc = "findById"
       /\ ( Leaves(s, "findById") /\ Stray(reqs[s].id) )
            => /\ reqs'[s].pc = "done"
               /\ reqs'[s].status = 404
               /\ reqs'[s].message = <<"Bug not found">>
               /\ bugs' = bugs]_vars

(* An update with a valid body to the identifier of a deleted record was   *)
(* answered 404.                                                           *)
C5_Witness ==
  \E s \in Slots :
    /\ reqs[s].op = "update" /\ reqs[s].status = 404
    /\ reqs[s].id.key > 0 /\ reqs[s].id.key \notin DOMAIN bugs
    /\ Present(reqs[s].raw.title)

(* C6: a GET, PUT or DELETE on /bugs/:id whose identifier is not in the    *)
(* storage identifier format is answered 400 with the identifier rule's    *)
(* message, and no storage operation is issued for it.                     *)
C6_MalformedIdRejected ==
  \A s \in Slots :
    ( reqs[s].op \in {"get", "update", "delete"} /\ ~WellFormedId(reqs[s].id) )
    => /\ reqs[s].pc = "done"
       /\ reqs[s].status = 400
       /\ Head(reqs[s].message) = "Invalid bug ID format"
       /\ ~reqs[s].invoked
       /\ reqs[s].ops = <<>>

(* A hexadecimal identifier one character short was refused on a PUT *)
C6_Witness ==
  \E s \in Slots :
    /\ reqs[s].op = "update" /\ reqs[s].status = 400
    /\ reqs[s].id.hex /\ reqs[s].id.len = 23
    /\ bugs # <<>>

(* The messages of the rules of a route that a body violates, rule by rule *)
RECURSIVE StepMessages(_, _)
StepMessages(steps, v) ==
  IF steps = <<>> THEN <<>>
  ELSE IF Head(steps).kind = "trim" THEN StepMessages(Tail(steps), Str(Trim(ToText(v))))
  ELSE (IF Passes(Head(steps), v) THEN <<>> ELSE <<Head(steps).msg>>)
       \o StepMessages(Tail(steps), v)

RECURSIVE RuleMessages(_, _)
RuleMessages(chains, b) ==
  IF chains = <<>> THEN <<>>
  ELSE (IF Head(chains).optional /\ ~Present(b[Head(chains).field]) THEN <<>>
        ELSE StepMessages(Head(chains).steps, b[Head(chains).field]))
       \o RuleMessages(Tail(chains), b)

Violated(op, id, b) ==
  (IF op \in {"get", "update", "delete"} /\ ~WellFormedId(id)
   THEN <<"Invalid bug ID format">> ELSE <<>>)
  \o RuleMessages(IF op = "create" THEN createBugValidation
                  ELSE IF op = "update" THEN updateBugValidation ELSE <<>>, b)

(* C7: a create or update request whose body violates a validation rule    *)
(* never reaches the controller: it ends in a 400 and the collection is    *)
(* unchanged.                                                              *)
C7_ControllerNotInvoked ==
  [][\A s \in Slots :
       ( /\ Arrives(s) /\ reqs'[s].op \in {"create", "update"}
         /\ Violated(reqs'[s].op, ObjectId(0), reqs'[s].raw) # <<>> )
       => /\ reqs'[s].pc = "done"
          /\ reqs'[s].status = 400
          /\ ~reqs'[s].invoked
          /\ reqs'[s].ops = <<>>
          /\ bugs' = bugs]_vars

(* A create whose tags are no array was refused with a record stored *)
C7_Witness ==
  \E s \in Slots :
    /\ reqs[s].op = "create" /\ reqs[s].status = 400 /\ ~reqs[s].invoked
    /\ reqs[s].raw.tags.type = "string"
    /\ bugs # <<>>

CreateStep(s) == Leaves(s, "Bug.create")
CreatedOne(s) ==
  /\ reqs'[s].pc = "done"
  /\ \E k \in DOMAIN bugs' \ DOMAIN bugs :
       /\ DOMAIN bugs' = DOMAIN bugs \cup {k}
       /\ \A j \in DOMAIN bugs : bugs'[j] = bugs[j]
       /\ ~Present(reqs[s].raw.status) => bugs'[k].status = Word("open", 4)
       /\ bugs'[k].priority = IF Present(reqs[s].raw.priority) THEN reqs[s].raw.priority
                              ELSE Word("medium", 6)
       /\ ~Present(reqs[s].raw.tags) => bugs'[k].tags.items = <<>>

NewBug == bugs'[CHOOSE k \in DOMAIN bugs' \ DOMAIN bugs : TRUE]

(* C9, as stated: the tags of the new record are the supplied tags *)
C9_Original ==
  [][\A s \in Slots :
       ( CreateStep(s) /\ reqs'[s].status = 201 )
       => /\ CreatedOne(s)
          /\ Present(reqs[s].raw.tags) => NewBug.tags.items = reqs[s].raw.tags.items]_vars

(* C9, amended: a create that passes validation and the storage checks is  *)
(* answered 201 and adds exactly one record, with status 'open' when the   *)
(* body has none, the supplied priority or 'medium', and the supplied tags *)
(* each trimmed of surrounding whitespace, or none; the records stored     *)
(* before are unchanged.  A create the storage refuses adds nothing.       *)
C9_CreateAddsOne ==
  [][\A s \in Slots :
       CreateStep(s)
       => \/ /\ reqs'[s].status = 201
             /\ CreatedOne(s)
             /\ Present(reqs[s].raw.tags) =>
                  /\ Len(NewBug.tags.items) = Len(reqs[s].raw.tags.items)
                  /\ \A i \in 1..Len(reqs[s].raw.tags.items) :
                       NewBug.tags.items[i].runs = Trim(reqs[s].raw.tags.items[i].runs)
          \/ /\ reqs'[s].status = 400
             /\ bugs' = bugs]_vars

(* A create with a priority and a padded tag was stored next to another *)
C9_Witness ==
  \E s \in Slots :
    /\ reqs[s].op = "create" /\ reqs[s].status = 201
    /\ reqs[s].raw.priority = Word("high", 4)
    /\ reqs[s].raw.tags.type = "array"
    /\ Cardinality(DOMAIN bugs) = 2
    /\ \E k \in DOMAIN bugs : bugs[k].tags.items = <<Str(X(2))>>

(* C10: no stored title, description, reporter or assignedTo holds a '<'   *)
(* or a '>'.                                                               *)
C10_NoAngleBrackets ==
  \A k \in DOMAIN bugs :
    \A f \in TextFields : ~HasAngle(bugs[k][f].runs)

(* A create and an update whose texts held '<' and '>' were stored *)
C10_Witness ==
  /\ \E k \in DOMAIN bugs : bugs[k].reporter = Str(X(1))
  /\ \E s \in Slots :
       /\ reqs[s].op = "update" /\ reqs[s].status = 200
       /\ HasAngle(reqs[s].raw.assignedTo.runs)
       /\ bugs[reqs[s].id.key].assignedTo = Str(X(3))

(* A filter is supplied when the query string gives it a value *)
Supplied(v) == v.type = "string" /\ Length(v.runs) > 0
Answered(s, op) == reqs[s].pc = "done" /\ reqs[s].op = op
ListedIds(s) == { reqs[s].data[i].id : i \in DOMAIN reqs[s].data }

(* C11: the list response holds exactly the records whose status is the    *)
(* supplied status filter and whose priority is the supplied priority      *)
(* filter, every record when no filter is supplied, each record once, and  *)
(* its count is the number of records in its data.                         *)
C11_ListFiltered ==
  \A s \in Slots :
    Answered(s, "list") =>
      /\ reqs[s].status = 200
      /\ reqs[s].count = Len(reqs[s].data)
      /\ Cardinality(ListedIds(s)) = Len(reqs[s].data)
      /\ ListedIds(s) =
           { k \in DOMAIN bugs :
               /\ Supplied(reqs[s].query.status) => bugs[k].status = reqs[s].query.status
               /\ Supplied(reqs[s].query.priority) => bugs[k].priority = reqs[s].query.priority }

(* A list filtered on status and priority returned one of two records *)
C11_Witness ==
  \E s \in Slots :
    /\ Answered(s, "list")
    /\ Supplied(reqs[s].query.status) /\ Supplied(reqs[s].query.priority)
    /\ reqs[s].count = 1
    /\ Cardinality(DOMAIN bugs) = 2
    /\ \E k \in DOMAIN bugs : bugs[k].status = reqs[s].query.status
                              /\ bugs[k].priority # reqs[s].query.priority

(* C12: a successful delete of a stored record removes that record and no  *)
(* other, leaves the other records as they were and is answered 200 with   *)
(* the message 'Bug deleted successfully'; the identifier never names a    *)
(* record again, and a later get-by-id for it is answered 404.             *)
C12_DeleteRemoves ==
  [][/\ \A s \in Slots :
          /\ ( /\ Leaves(s, "findByIdAndDelete")
               /\ reqs[s].id.key \in DOMAIN bugs
               /\ reqs'[s].status = 200 )
             => /\ DOMAIN bugs' = DOMAIN bugs \ {reqs[s].id.key}
                /\ \A j \in DOMAIN bugs' : bugs'[j] = bugs[j]
                /\ reqs'[s].pc = "done"
                /\ reqs'[s].message = <<"Bug deleted successfully">>
          /\ ( /\ Leaves(s, "findById") /\ reqs[s].op = "get"
               /\ Stray(reqs[s].id) )
             => reqs'[s].status = 404
     /\ \A k \in 1..(nextId - 1) : k \notin DOMAIN bugs => k \notin DOMAIN bugs']_vars

(* The first of two records was deleted and the second is still stored *)
C12_Witness ==
  \E s \in Slots :
    /\ Answered(s, "delete") /\ reqs[s].status = 200
    /\ reqs[s].id.key = 1
    /\ DOMAIN bugs = {2}

RECURSIVE SumCounts(_)
SumCounts(groups) ==
  IF groups = {} THEN 0
  ELSE LET g == CHOOSE g \in groups : TRUE IN g.count + SumCounts(groups \ {g})

(* The groups hold, for each value of the field that occurs in coll and    *)
(* for no other, the number of documents of coll with that value.          *)
CountsOf(groups, coll, field) ==
  /\ \A k \in DOMAIN coll : \E g \in groups : g._id = coll[k][field]
  /\ \A g \in groups :
       /\ g.count > 0
       /\ g.count = Cardinality({ k \in DOMAIN coll : coll[k][field] = g._id })
  /\ \A g, h \in groups : g._id = h._id => g = h
  /\ SumCounts(groups) = Cardinality(DOMAIN coll)

(* C13: with one request at a time, the stats response holds for each      *)
(* status and each priority that occurs the number of records with it, the *)
(* counts of each grouping sum to the number of records, and the request   *)
(* changes no record.                                                      *)
C13_StatsCounts ==
  [][\A s \in Slots :
       /\ ( Leaves(s, "aggregatePriority") )
          => /\ reqs'[s].pc = "done" /\ reqs'[s].status = 200
             /\ CountsOf(reqs'[s].byStatus, bugs', "status")
             /\ CountsOf(reqs'[s].byPriority, bugs', "priority")
       /\ ( reqs[s].op = "stats" /\ reqs'[s] # reqs[s] ) => bugs' = bugs
       /\ ( Arrives(s) /\ reqs'[s].op = "stats" ) => bugs' = bugs]_vars

(* The statistics of two records of one status and two priorities *)
C13_Witness ==
  \E s \in Slots :
    /\ Answered(s, "stats")
    /\ Cardinality(DOMAIN bugs) = 2
    /\ Cardinality(reqs[s].byStatus) = 1
    /\ Cardinality(reqs[s].byPriority) = 2

SchemaMessages ==
  { "Bug title is required", "Title must be at least 3 characters",
    "Title cannot exceed 200 characters", "Bug description is required",
    "Description must be at least 10 characters", "Reporter name is required",
    "is not a valid enum value for path" }

(* The storage layer refuses the write of the handler of slot s *)
StorageRejects(s) ==
  \/ Leaves(s, "Bug.create") /\ bugs' = bugs
  \/ /\ Leaves(s, "findByIdAndUpdate")
     /\ reqs[s].id.key \in DOMAIN bugs
     /\ bugs'[reqs[s].id.key].updatedAt = bugs[reqs[s].id.key].updatedAt
     /\ reqs'[s].status # 200

(* C14: when the schema refuses a create or an update that passed the      *)
(* request validation, the response is 400 with the schema's messages      *)
(* joined by ', ', never 500, and no record is created or modified.        *)
C14_StorageRejection ==
  [][\A s \in Slots :
       StorageRejects(s)
       => /\ reqs[s].invoked
          /\ reqs'[s].pc = "done"
          /\ reqs'[s].status = 400
          /\ reqs'[s].message # <<>>
          /\ \A i \in DOMAIN reqs'[s].message :
               IF i % 2 = 1 THEN reqs'[s].message[i] \in SchemaMessages
               ELSE reqs'[s].message[i] = ", "
          /\ bugs' = bugs]_vars

(* A create whose title is empty without its brackets and whose status is  *)
(* unknown passed validation and was refused by the schema, a record being *)
(* stored.                                                                 *)
C14_Witness ==
  \E s \in Slots :
    /\ Answered(s, "create") /\ reqs[s].invoked /\ reqs[s].status = 400
    /\ reqs[s].message = <<"Bug title is required", ", ",
                           "is not a valid enum value for path">>
    /\ bugs # <<>>

(* C15: the createdAt of a record never changes, its updatedAt is never    *)
(* before its createdAt and never decreases, and a successful update sets  *)
(* updatedAt to a value not smaller than the one it had.                   *)
C15_Timestamps ==
  [][/\ \A k \in DOMAIN bugs' : bugs'[k].updatedAt >= bugs'[k].createdAt
     /\ \A k \in DOMAIN bugs \cap DOMAIN bugs' :
          /\ bugs'[k].createdAt = bugs[k].createdAt
          /\ bugs'[k].updatedAt >= bugs[k].updatedAt
     /\ \A s \in Slots :
          ( Leaves(s, "findByIdAndUpdate") /\ reqs'[s].status = 200 )
          => /\ reqs[s].id.key \in DOMAIN bugs
             /\ bugs'[reqs[s].id.key].updatedAt >= bugs[reqs[s].id.key].updatedAt]_vars

(* A record created at 0 was updated at 2, next to a record created later *)
C15_Witness ==
  \E s \in Slots :
    /\ Answered(s, "update") /\ reqs[s].status = 200
    /\ bugs[reqs[s].id.key].createdAt = 0
    /\ bugs[reqs[s].id.key].updatedAt = 2
    /\ \E k \in DOMAIN bugs : bugs[k].createdAt = 1

Blank(v) == v.type = "string" /\ Length(Trim(v.runs)) = 0

(* C16: a successful update whose assignedTo is '' stores an empty         *)
(* assignedTo, one without assignedTo leaves the stored assignedTo as it    *)
(* was, and a successful create whose assignedTo is empty stores a record   *)
(* with no assignedTo.                                                      *)
C16_AssignedTo ==
  [][\A s \in Slots :
       /\ ( Leaves(s, "findByIdAndUpdate") /\ reqs'[s].status = 200 )
          => /\ Blank(reqs[s].raw.assignedTo)
                => bugs'[reqs[s].id.key].assignedTo = Str(<<>>)
             /\ ~Present(reqs[s].raw.assignedTo)
                => bugs'[reqs[s].id.key].assignedTo = bugs[reqs[s].id.key].assignedTo
       /\ ( CreateStep(s) /\ reqs'[s].status = 201 /\ Blank(reqs[s].raw.assignedTo) )
          => /\ DOMAIN bugs' # DOMAIN bugs
             /\ ~Present(NewBug.assignedTo)]_vars

(* The record created with assignedTo ' < xx' was updated with assignedTo  *)
(* '' and has an empty assignedTo                                          *)
C16_Witness ==
  \E s \in Slots :
    /\ Answered(s, "update") /\ reqs[s].status = 200
    /\ reqs[s].raw.assignedTo = Str(<<>>)
    /\ bugs[reqs[s].id.key].title = Str(X(6))
    /\ bugs[reqs[s].id.key].reporter = Str(X(1))
    /\ bugs[reqs[s].id.key].assignedTo = Str(<<>>)

(* ================== properties of the utility functions ================ *)
(* C17, as stated: sanitizeInput applied to its own result returns that    *)
(* result, for every text of at most 1000 characters.                      *)
C17_Idempotent ==
  ( /\ call.fn = "sanitizeInput" /\ call.arg.type = "string"
    /\ Length(call.arg.runs) <= 1000
    /\ Len(call.out) = 2 )
  => call.out[2] = call.out[1]

(* The number of characters of a text that are neither '<' nor '>' *)
RECURSIVE Kept(_)
Kept(runs) ==
  IF runs = <<>> THEN 0
  ELSE (IF Head(runs).c \in {"<", ">"} THEN 0 ELSE Head(runs).n) + Kept(Tail(runs))

(* C18: sanitizeInput returns a text of at most 1000 characters for a      *)
(* text, of exactly 1000 when the trimmed text without its '<' and '>' is  *)
(* longer, and returns any other value as it is.                           *)
C18_LengthBound ==
  ( call.fn = "sanitizeInput" /\ call.out # <<>> )
  => IF call.arg.type = "string"
     THEN /\ call.out[1].type = "string"
          /\ Length(call.out[1].runs) <= 1000
          /\ Kept(Trim(call.arg.runs)) > 1000 => Length(call.out[1].runs) = 1000
     ELSE call.out[1] = call.arg

(* 1000 letters, '<' and a letter: 1001 characters are kept, 1000 returned *)
C18_Witness ==
  /\ call.fn = "sanitizeInput"
  /\ call.arg = Str(X(1000) \o LT \o X(1))
  /\ call.out # <<>>
  /\ call.out[1] = Str(X(1000))

(* C19: isValidStatus is true for 'open', 'in-progress', 'resolved' and    *)
(* 'closed' and for nothing else, isValidPriority for 'low', 'medium',     *)
(* 'high' and 'critical' and for nothing else.                             *)
C19_ExactEnumerations ==
  /\ ( call.fn = "isValidStatus" /\ call.out # <<>> )
     => call.out[1] = (call.arg \in StatusEnumeration)
  /\ ( call.fn = "isValidPriority" /\ call.out # <<>> )
     => call.out[1] = (call.arg \in PriorityEnumeration)

(* ' open ' is no status *)
C19_Witness ==
  /\ call.fn = "isValidStatus"
  /\ call.arg = Str(SP(1) \o Run("open", 4) \o SP(1))
  /\ call.out = <<FALSE>>

(* =================== the shape of the returned records ================= *)
WireFields ==
  {"id", "title", "description", "status", "priority", "reporter", "assignedTo",
   "tags", "createdAt", "updatedAt"}

(* The record `out` is the stored record of its id by its ten fields *)
Shaped(out) ==
  /\ DOMAIN out = WireFields
  /\ out.id \in DOMAIN bugs
  /\ out.id = bugs[out.id]._id
  /\ \A f \in WireFields \ {"id"} : out[f] = bugs[out.id][f]

Given(m) == m.type = "string" /\ Length(m.runs) > 0

TitleInvalid(d) == Length(Trim(d.title.runs)) < 3
DescriptionInvalid(d) == Length(Trim(d.description.runs)) < 10
ReporterInvalid(d) == Length(Trim(d.reporter.runs)) = 0
FormInvalid(d) == TitleInvalid(d) \/ DescriptionInvalid(d) \/ ReporterInvalid(d)

(* The calls of onSubmit (App.handleCreateBug) that have not settled *)
Submissions(h) == { c \in h.calls : c.by = "handleCreateBug" }
(* The calls made in the step, and the calls whose handler ran on in it *)
Begun == { c \in http'.calls : \A d \in http.calls : d.n # c.n }
Ended == { c \in http.calls : \A d \in http'.calls : d.n # c.n }
(* The step is a submit that did not call onSubmit *)
SubmitRefused ==
  /\ form' # form /\ form'.formData = form.formData
  /\ http' = http

(* C22: BugForm does not call onSubmit while the trimmed title is shorter  *)
(* than 3 characters, the trimmed description shorter than 10 or the       *)
(* trimmed reporter empty; a submit of such a form sets the errors of the  *)
(* fields that are invalid.                                                *)
C22_NoInvalidSubmit ==
  [][/\ Begun \cap Submissions(http') # {} => ~FormInvalid(form.formData)
     /\ SubmitRefused
        => /\ FormInvalid(form.formData)
           /\ Given(form'.errors.title) = TitleInvalid(form.formData)
           /\ Given(form'.errors.description) = DescriptionInvalid(form.formData)
           /\ Given(form'.errors.reporter) = ReporterInvalid(form.formData)
           /\ ~form'.isSubmitting]_vars

(* A submit of ' xx ' with a description of 9 characters and a blank       *)
(* reporter was refused                                                    *)
C22_Witness ==
  /\ form.formData.title = Str(SP(1) \o X(2) \o SP(1))
  /\ form.formData.reporter = Str(SP(1))
  /\ form.errors.title = Word("Title must be at least 3 characters", 35)
  /\ form.errors.description = Word("Description must be at least 10 characters", 42)
  /\ form.errors.reporter = Word("Reporter name is required", 25)
  /\ http.n = 0

(* C23: isSubmitting is true from the call of onSubmit until that call has *)
(* settled, and false again once it has, resolved or rejected.             *)
C23_SubmittingWhilePending ==
  form.isSubmitting = (Submissions(http) # {})

(* A submission resolved: the new bug is listed and the form is enabled *)
C23_Witness ==
  /\ ~form.isSubmitting
  /\ Submissions(http) = {}
  /\ \E i \in DOMAIN app.bugs : app.bugs[i].id = 3
  /\ form.formData = EmptyForm

Changed(d, e) == { f \in DOMAIN d : d[f] # e[f] }

(* C24: the fields are reset together only when onSubmit resolved; when it *)
(* rejected, the fields keep their values and the error's message is the   *)
(* submit error.                                                           *)
C24_ResetOnSuccessOnly ==
  [][/\ Cardinality(Changed(form.formData, form'.formData)) > 1
        => \E c \in Ended \cap Submissions(http) :
             c.pc = "settled" /\ c.outcome.ok /\ ~c.result.threw
     /\ \A c \in Ended \cap Submissions(http) :
          IF c.result.threw
          THEN /\ form'.formData = form.formData
               /\ form'.errors.submit = c.result.message
               /\ Given(form'.errors.submit)
          ELSE form'.formData = EmptyForm]_vars

(* A submission was rejected for want of a response: the fields are kept   *)
(* and the message is shown                                                *)
C24_Witness ==
  /\ form.errors.submit = Word("No response from server. Please check your connection.", 54)
  /\ form.formData.title = Str(X(3))
  /\ form.formData.reporter = Str(X(4))
  /\ ~form.isSubmitting

ShownIds(a) == { a.bugs[i].id : i \in DOMAIN a.bugs }

(* C25: handleDeleteBug takes a bug off the list only when its deleteBug   *)
(* call returned; when the call threw, the list is as it was.  A bug       *)
(* leaves the list in no other way than a successful delete or the         *)
(* response of a fetch.                                                    *)
C25_DeleteAfterSuccess ==
  [][/\ \A c \in Ended :
          c.by = "handleDeleteBug"
          => IF c.result.threw
             THEN app'.bugs = app.bugs
             ELSE /\ c.outcome.ok
                  /\ c.arg.id \notin DOMAIN server.held
                  /\ ShownIds(app') = ShownIds(app) \ {c.arg.id}
     /\ \A id \in ShownIds(app) \ ShownIds(app') :
          \E c \in Ended :
            /\ c.outcome.ok
            /\ \/ c.by = "handleDeleteBug" /\ c.arg.id = id
               \/ c.by = "fetchBugs"
     /\ \A c \in Begun : c.by = "handleDeleteBug" => app' = app]_vars

(* Bug 1 was deleted on the server and then taken off the list of all bugs *)
C25_Witness ==
  /\ app.bugs = <<Item(2, resolved, medium)>>
  /\ app.filter = NoFilter /\ app.shown = 1
  /\ DOMAIN server.held = {2}
  /\ http.calls = {}

Fetches(h) == { c \in h.calls : c.by = "fetchBugs" }

(* C30, as stated: once no fetch is in flight, the list is the response to *)
(* the fetch made for the current filter, and loading is false only when   *)
(* no fetch is in flight.                                                  *)
C30_LatestFetchShown ==
  /\ ( /\ Fetches(http) = {} /\ app.ran = app.ver
       /\ app.error = Null /\ app.shown # 0 )
     => app.shown = app.fetch
  /\ ~app.loading => Fetches(http) = {}


(* C26: no step changes the reporter of a stored record: an update leaves  *)
(* it as it was recorded at creation, also when the request body carries   *)
(* a reporter, and the response shows the recorded reporter.               *)
C26_ReporterImmutable ==
  [][/\ \A k \in DOMAIN bugs \cap DOMAIN bugs' : bugs'[k].reporter = bugs[k].reporter
     /\ \A s \in Slots :
          ( Leaves(s, "findByIdAndUpdate") /\ reqs'[s].status = 200 )
          => reqs'[s].data[1].reporter = bugs[reqs[s].id.key].reporter]_vars

(* A successful update whose body carried another reporter than the one    *)
(* recorded                                                                *)
C26_Witness ==
  \E s \in Slots :
    /\ reqs[s].op = "update" /\ reqs[s].status = 200
    /\ Present(reqs[s].raw.reporter)
    /\ reqs[s].id.key \in DOMAIN bugs
    /\ bugs[reqs[s].id.key].reporter # sanitizeInput(reqs[s].raw.reporter)
    /\ bugs[reqs[s].id.key].assignedTo = sanitizeInput(reqs[s].raw.assignedTo)


(* C27: an update or a delete whose record is no longer stored when its    *)
(* write (findByIdAndUpdate, findByIdAndDelete) executes is answered 404   *)
(* 'Bug not found': not with a success for a write that affected no        *)
(* record, and not with a 500.                                             *)
C27_GoneAtWrite ==
  [][\A s \in Slots :
       ( /\ Leaves(s, "findByIdAndUpdate") \/ Leaves(s, "findByIdAndDelete")
         /\ reqs[s].id.key \notin DOMAIN bugs )
       => /\ reqs'[s].status = 404
          /\ reqs'[s].message = <<"Bug not found">>]_vars


(* The handlers of slots s and t interleaved: each made its lookup before  *)
(* the other's write executed.                                             *)
Interleaved(s, t) ==
  /\ s # t
  /\ reqs[s].at > 0 /\ reqs[t].at > 0
  /\ reqs[s].seen < reqs[t].at
  /\ reqs[t].seen < reqs[s].at
(* The update slot s wrote, as cast by the schema *)
Written(s) == CastUpdate(updates(reqs[s].body))
(* Slots s and t hold two answered updates of the same stored record, and  *)
(* the write of s executed after the write of t.                           *)
UpdatedTwice(s, t) ==
  /\ Interleaved(s, t)
  /\ reqs[s].op = "update" /\ reqs[s].status = 200
  /\ reqs[t].op = "update" /\ reqs[t].status = 200
  /\ reqs[s].id = reqs[t].id
  /\ reqs[s].id.key \in DOMAIN bugs
  /\ reqs[s].at > reqs[t].at

(* C28: after two interleaved updates of one record, every field supplied  *)
(* by the update that wrote last holds its value, and every field supplied *)
(* only by the update that wrote first holds that update's value.          *)
C28_NoLostField ==
  \A s, t \in Slots :
    UpdatedTwice(s, t)
    => \A f \in UpdateFields :
         LET v == bugs[reqs[s].id.key][f]
         IN /\ Present(reqs[s].raw[f]) => v = Written(s)[f]
            /\ ( Present(reqs[t].raw[f]) /\ ~Present(reqs[s].raw[f]) ) => v = Written(t)[f]

(* Two interleaved updates of one record, with a field supplied by both, a *)
(* field supplied by the first only and one by the last only               *)
C28_Witness ==
  \E s, t \in Slots :
    /\ UpdatedTwice(s, t)
    /\ Present(reqs[s].raw.status) /\ Present(reqs[t].raw.status)
    /\ reqs[s].raw.status # reqs[t].raw.status
    /\ Present(reqs[t].raw.title) /\ ~Present(reqs[s].raw.title)
    /\ Present(reqs[s].raw.priority) /\ ~Present(reqs[t].raw.priority)
    /\ bugs[reqs[s].id.key].title = sanitizeInput(reqs[t].raw.title)
    /\ bugs[reqs[s].id.key].status = reqs[s].raw.status


=============================================================================
